---- MODULE Spec2Model ----
(***************************************************************************)
(* The archive packager (compressor.py, PaZipCompressor) and unpackager    *)
(* (extractor.py, PaZipExtractor) of pyarchiver.                           *)
(*                                                                         *)
(* A Python str is modelled as a tuple of one-character strings, a bytes   *)
(* value as a tuple of integers 0..255, so that globbing, the file-name    *)
(* pattern, path arithmetic and the CRC are computed character by          *)
(* character as the library functions compute them.                        *)
(***************************************************************************)
EXTENDS Integers, Sequences, FiniteSets, TLC

\* ------------------------------------------------------------------------
\* Characters and bytes
\* ------------------------------------------------------------------------

Digits == {"0", "1", "2", "3", "4", "5", "6", "7", "8", "9"}

LowerLetters == {"a", "b", "c", "d", "e", "f", "g", "h", "i", "j", "k", "l", "m",
                 "n", "o", "p", "q", "r", "s", "t", "u", "v", "w", "x", "y", "z"}

UpperLetters == {"A", "B", "C", "D", "E", "F", "G", "H", "I", "J", "K", "L", "M",
                 "N", "O", "P", "Q", "R", "S", "T", "U", "V", "W", "X", "Y", "Z"}

HexChars == Digits \cup {"a", "b", "c", "d", "e", "f"} \cup {"A", "B", "C", "D", "E", "F"}

Whitespace == {" ", "\t", "\n", "\r"}

\* The printable ASCII characters in code order: 32 (space) to 95 (_), and 97
\* (a) to 126 (~). Code 96 is not used by the model.
PrintableLow == <<" ", "!", "\"", "#", "$", "%", "&", "'", "(", ")", "*", "+", ",", "-", ".", "/", "0", "1", "2", "3", "4", "5", "6", "7", "8", "9", ":", ";", "<", "=", ">", "?">> \o <<"@">> \o <<"A", "B", "C", "D", "E", "F", "G", "H", "I", "J", "K", "L", "M", "N", "O", "P", "Q", "R", "S", "T", "U", "V", "W", "X", "Y", "Z", "[", "\\", "]", "^", "_">>

PrintableHigh == <<"a", "b", "c", "d", "e", "f", "g", "h", "i", "j", "k", "l", "m", "n", "o", "p", "q", "r", "s", "t", "u", "v", "w", "x", "y", "z", "{", "|", "}", "~">>

\* ord() on the characters the model uses.
OrdOf(c) == IF c = "\n" THEN 10
            ELSE IF c = "\t" THEN 9
            ELSE IF c = "\r" THEN 13
            ELSE IF \E i \in 1..Len(PrintableLow) : PrintableLow[i] = c
                 THEN 31 + (CHOOSE i \in 1..Len(PrintableLow) : PrintableLow[i] = c)
            ELSE 96 + (CHOOSE i \in 1..Len(PrintableHigh) : PrintableHigh[i] = c)

Characters == {PrintableLow[i] : i \in 1..Len(PrintableLow)}
              \cup {PrintableHigh[i] : i \in 1..Len(PrintableHigh)} \cup {"\n", "\t", "\r"}

OrdTable == [c \in Characters |-> OrdOf(c)]

Ord(c) == OrdTable[c]

\* chr()
Chr(n) == IF n = 10 THEN "\n"
          ELSE IF n = 9 THEN "\t"
          ELSE IF n = 13 THEN "\r"
          ELSE IF n < 96 THEN PrintableLow[n - 31]
          ELSE PrintableHigh[n - 96]

\* str.encode() / bytes.decode() of ASCII text.
Encode(s) == [i \in 1..Len(s) |-> Ord(s[i])]

Decode(b) == [i \in 1..Len(b) |-> Chr(b[i])]

Min(a, b) == IF a < b THEN a ELSE b

\* ------------------------------------------------------------------------
\* os.path (posixpath)
\* ------------------------------------------------------------------------

\* os.path.join(a, b)
Join(a, b) == IF b # <<>> /\ Head(b) = "/" THEN b
              ELSE IF a = <<>> \/ a[Len(a)] = "/" THEN a \o b
              ELSE a \o <<"/">> \o b

\* The join that takes the first two of the parts only: the target without its
\* checksum level.
JoinFirstTwo(a, parts) == Join(Join(a, parts[1]), parts[2])

RECURSIVE JoinAll(_, _)
\* os.path.join(a, *parts)
JoinAll(a, parts) == IF parts = <<>> THEN a
                     ELSE JoinAll(Join(a, Head(parts)), Tail(parts))

\* The index of the last "/" of p, 0 when there is none.
LastSlash(p) == LET at == {i \in 1..Len(p) : p[i] = "/"}
                IN  IF at = {} THEN 0 ELSE CHOOSE i \in at : \A j \in at : j <= i

\* os.path.basename(p)
Basename(p) == SubSeq(p, LastSlash(p) + 1, Len(p))

RECURSIVE SplitSlash(_)
\* p.split("/")
SplitSlash(p) == LET at == {i \in 1..Len(p) : p[i] = "/"}
                 IN  IF at = {} THEN <<p>>
                     ELSE LET i == CHOOSE k \in at : \A j \in at : k <= j
                          IN  <<SubSeq(p, 1, i - 1)>> \o SplitSlash(SubSeq(p, i + 1, Len(p)))

RECURSIVE JoinSlash(_)
\* "/".join(parts)
JoinSlash(parts) == IF parts = <<>> THEN <<>>
                    ELSE IF Len(parts) = 1 THEN parts[1]
                    ELSE parts[1] \o <<"/">> \o JoinSlash(Tail(parts))

RECURSIVE NormComps(_, _, _)
\* The component loop of posixpath.normpath: "" and "." are dropped, ".." pops
\* the previous component unless there is none to pop.
NormComps(comps, acc, rooted) ==
    IF comps = <<>> THEN acc
    ELSE LET c == Head(comps)
         IN  IF c = <<>> \/ c = <<".">> THEN NormComps(Tail(comps), acc, rooted)
             ELSE IF c # <<".", ".">>
                     \/ (~rooted /\ acc = <<>>)
                     \/ (acc # <<>> /\ acc[Len(acc)] = <<".", ".">>)
                  THEN NormComps(Tail(comps), Append(acc, c), rooted)
             ELSE IF acc # <<>> THEN NormComps(Tail(comps), SubSeq(acc, 1, Len(acc) - 1), rooted)
             ELSE NormComps(Tail(comps), acc, rooted)

\* os.path.normpath(p)
NormPath(p) == IF p = <<>> THEN <<".">>
               ELSE LET rooted == Head(p) = "/"
                        \* POSIX keeps exactly two leading slashes, and folds three or more
                        two    == rooted /\ Len(p) >= 2 /\ p[2] = "/" /\ ~(Len(p) >= 3 /\ p[3] = "/")
                        body   == JoinSlash(NormComps(SplitSlash(p), <<>>, rooted))
                        out    == IF two THEN <<"/", "/">> \o body
                                  ELSE IF rooted THEN <<"/">> \o body ELSE body
                    IN  IF out = <<>> THEN <<".">> ELSE out

\* The working directory of the process.
Cwd == <<"/", "w">>

\* os.path.abspath(p)
AbsPath(p) == NormPath(Join(Cwd, p))

\* The non-empty components of an absolute path.
Comps(p) == SelectSeq(SplitSlash(p), LAMBDA c : c # <<>>)

RECURSIVE CommonLen(_, _)
\* len(os.path.commonprefix([a, b])) on component lists
CommonLen(a, b) == IF a = <<>> \/ b = <<>> \/ Head(a) # Head(b) THEN 0
                   ELSE 1 + CommonLen(Tail(a), Tail(b))

\* The path as it is, not made relative to start.
RelPathKept(path, start) == path

\* os.path.relpath(path, start)
RelPath(path, start) ==
    LET sl  == Comps(AbsPath(start))
        pl  == Comps(AbsPath(path))
        i   == CommonLen(sl, pl)
        rel == [k \in 1..(Len(sl) - i) |-> <<".", ".">>] \o SubSeq(pl, i + 1, Len(pl))
    IN  IF rel = <<>> THEN <<".">> ELSE JoinSlash(rel)

\* ------------------------------------------------------------------------
\* fnmatch
\* ------------------------------------------------------------------------

RECURSIVE Glob(_, _)
\* fnmatch.fnmatch(name, pat) on POSIX (normcase is the identity): the pattern
\* is translated to a regular expression matched against the whole name, "*" to
\* ".*" and "?" to "." under DOTALL, so both also match "/"; any other character
\* matches itself. Bracket expressions are outside the patterns modelled.
Glob(name, pat) ==
    IF pat = <<>> THEN name = <<>>
    ELSE IF Head(pat) = "*"
         THEN Glob(name, Tail(pat)) \/ (name # <<>> /\ Glob(Tail(name), pat))
    ELSE IF Head(pat) = "?"
         THEN name # <<>> /\ Glob(Tail(name), Tail(pat))
    ELSE name # <<>> /\ Head(name) = Head(pat) /\ Glob(Tail(name), Tail(pat))

\* ------------------------------------------------------------------------
\* zlib.crc32 and the checksum of a file
\* ------------------------------------------------------------------------

RECURSIVE Xor(_, _)
\* a ^ b on non-negative integers
Xor(a, b) == IF a = 0 THEN b
             ELSE IF b = 0 THEN a
             ELSE ((a + b) % 2) + 2 * Xor(a \div 2, b \div 2)

Byte == 0..255

\* a ^ b on bytes, tabulated
Xor8 == [a \in Byte |-> [b \in Byte |-> Xor(a, b)]]

\* A 32-bit value is the tuple of its four bytes, the most significant first.
\* The reflected CRC-32 polynomial 0xEDB88320 of zlib, as its two 16-bit halves.
PolyHi == 60856

PolyLo == 33568

RECURSIVE CrcBits(_, _, _)
\* k steps of the bitwise CRC on the halves hi, lo: shift right, and xor the
\* polynomial in when a 1 fell out.
CrcBits(hi, lo, k) ==
    IF k = 0 THEN <<hi \div 256, hi % 256, lo \div 256, lo % 256>>
    ELSE LET h == hi \div 2
             l == (hi % 2) * 32768 + lo \div 2
         IN  IF lo % 2 = 1 THEN CrcBits(Xor(h, PolyHi), Xor(l, PolyLo), k - 1)
             ELSE CrcBits(h, l, k - 1)

\* zlib's byte table: the CRC of each single byte.
CrcTable == [i \in Byte |-> CrcBits(0, i, 8)]

\* One byte folded in: crc = table[(crc ^ byte) & 0xFF] ^ (crc >> 8)
CrcByte(c, byte) == LET e == CrcTable[Xor8[c[4]][byte]]
                    IN  <<e[1], Xor8[c[1]][e[2]], Xor8[c[2]][e[3]], Xor8[c[3]][e[4]]>>

RECURSIVE CrcBytes(_, _)
\* The bytes of data folded into c, first to last. (The test on n only makes
\* the evaluator compute each step's value before it goes on to the next.)
CrcBytes(c, data) == IF data = <<>> THEN c
                     ELSE LET n == CrcByte(c, Head(data))
                          IN  IF n[1] >= 0 THEN CrcBytes(n, Tail(data)) ELSE n

Complement(c) == <<255 - c[1], 255 - c[2], 255 - c[3], 255 - c[4]>>

\* zlib.crc32(data, value): the running value is complemented on the way in and
\* on the way out.
zlib_crc32(data, value) == Complement(CrcBytes(Complement(value), data))

\* f.read(1024)
ChunkSize == 1024

RECURSIVE ReadLoop(_, _)
\* while chunk := f.read(1024): hash_crc32 = zlib.crc32(chunk, hash_crc32)
ReadLoop(data, hash) ==
    IF data = <<>> THEN hash
    ELSE LET n == Min(Len(data), ChunkSize)
         IN  ReadLoop(SubSeq(data, n + 1, Len(data)), zlib_crc32(SubSeq(data, 1, n), hash))

HexDigit == <<"0", "1", "2", "3", "4", "5", "6", "7", "8", "9", "a", "b", "c", "d", "e", "f">>

\* f"{b:02x}" of a byte
Hex2(b) == <<HexDigit[(b \div 16) + 1], HexDigit[(b % 16) + 1]>>

\* f"{hash_crc32 & 0xFFFFFFFF:08x}"
Hex8(c) == Hex2(c[1]) \o Hex2(c[2]) \o Hex2(c[3]) \o Hex2(c[4])

\* calculate_crc32 on a file that opens: the digest of its bytes.
Crc32Hex(data) == Hex8(ReadLoop(data, <<0, 0, 0, 0>>))

\* The value calculate_crc32 returns when the file is not found.
Sentinel == <<"0", "0", "0", "0", "0", "0", "0", "0">>

\* ------------------------------------------------------------------------
\* The 7z codec (py7zr), as far as the two programs use it: a container is a
\* signature, one record per entry written, and an end record that close()
\* adds. Until close() the file holds a prefix of the container.
\* ------------------------------------------------------------------------

Magic == <<55, 122>>

EntryBytes(arcname, data) == <<Len(arcname)>> \o Encode(arcname) \o <<Len(data)>> \o data

EndRecord(n) == <<0, n>>

\* What reading bytes that are not a closed container gives.
Corrupt == [ok |-> FALSE, entries |-> <<>>]

RECURSIVE ReadEntries(_, _)
\* The entries of a container body.
ReadEntries(b, acc) ==
    IF b = <<>> THEN Corrupt
    ELSE IF b[1] = 0
         THEN IF Len(b) = 2 /\ b[2] = Len(acc) THEN [ok |-> TRUE, entries |-> acc] ELSE Corrupt
    ELSE LET n == b[1]
         IN  IF Len(b) < n + 2 THEN Corrupt
             ELSE LET m == b[n + 2]
                  IN  IF Len(b) < n + 2 + m THEN Corrupt
                      ELSE ReadEntries(SubSeq(b, n + 3 + m, Len(b)),
                                       Append(acc, [arcname |-> Decode(SubSeq(b, 2, n + 1)),
                                                    data    |-> SubSeq(b, n + 3, n + 2 + m)]))

\* py7zr.SevenZipFile(path, mode="r"): the entries of the container.
ReadContainer(b) == IF Len(b) < 2 \/ SubSeq(b, 1, 2) # Magic THEN Corrupt
                    ELSE ReadEntries(SubSeq(b, 3, Len(b)), <<>>)

\* archive.extractall(path): the files written, by relative path.
ExtractAll(entries) == [a \in {entries[i].arcname : i \in 1..Len(entries)} |->
                           (CHOOSE e \in {entries[i] : i \in 1..Len(entries)} : e.arcname = a).data]

\* ------------------------------------------------------------------------
\* The directories the packager is run on
\* ------------------------------------------------------------------------

\* A directory is [files, dirs]: its regular files [name, data] and its
\* sub-directories [name, node], each in the order scandir lists them.
File(name, text) == [name |-> name, data |-> Encode(text)]

Dir(files, dirs) == [files |-> files, dirs |-> dirs]

PaignoreName == <<".", "p", "a", "i", "g", "n", "o", "r", "e">>

\* The texts of .paignore; <<>> stands for "no .paignore file".
NoPaignore == <<>>

PaignoreTexts == { NoPaignore,
                   <<"*", ".", "l", "o", "g", "\n", "c", "a", "c", "h", "e", "\n">>,
                   <<"c", "a", "c", "h", "e", "\n">>,
                   <<"*", "/", "c", "a", "c", "h", "e", "\n">>,
                   <<"p", "r", "o", "*", "\n">>,
                   <<"\n", " ", " ", "*", ".", "l", "o", "g", " ", "\n", "\n", "?", ".", "t", "x", "t">> }

CacheDir == [name |-> <<"c", "a", "c", "h", "e">>, node |-> Dir(<<File(<<"x", ".", "b", "i", "n">>, <<"X">>)>>, <<>>)]

Tree(ign, hasA, hasB, hasCache) ==
    Dir( (IF ign = NoPaignore THEN <<>> ELSE <<File(PaignoreName, ign)>>)
         \o (IF hasA THEN <<File(<<"a", ".", "t", "x", "t">>, <<"A", "1">>)>> ELSE <<>>)
         \o (IF hasB THEN <<File(<<"b", ".", "l", "o", "g">>, <<"B">>)>> ELSE <<>>),
         IF hasCache THEN <<CacheDir>> ELSE <<>> )

Trees == { Tree(ign, a, b, c) : ign \in PaignoreTexts, a \in BOOLEAN, b \in BOOLEAN, c \in BOOLEAN }

\* The directory argument, as the caller spells it: plain, with a trailing
\* separator, the working directory, and a sibling of the working directory
\* whose name holds a space and a dot.
Directories == { <<"p", "r", "o", "j", "e", "c", "t">>, <<"p", "r", "o", "j", "e", "c", "t", "/">>, <<"b", "a", "c", "k", "u", "p">>, <<".">>,
                 <<".", ".", "/", "a", " ", "b", ".", "c">> }

\* archive_locale: the existing directory the archive is written to.
ArchiveLocale == <<"a", "r", "c", "h">>

\* time.strftime("%Y%m%d%H%M%S%z") at the moment it is called.
Timestamps == { <<"2", "0", "2", "4", "0", "1", "0", "1", "1", "2", "0", "0", "0", "0", "+", "0", "0", "0", "0">>, <<"2", "0", "2", "6", "1", "1", "0", "6", "1", "1", "4", "2", "1", "9", "-", "0", "5", "3", "0">> }

Absent == [kind |-> "absent", data |-> <<>>]

RECURSIVE Lookup(_, _)
\* What is at the components `comps` below `node`: a file and its data, a
\* directory, or nothing.
Lookup(node, comps) ==
    IF comps = <<>> THEN [kind |-> "dir", data |-> <<>>]
    ELSE LET fl == {node.files[i] : i \in 1..Len(node.files)}
             ds == {node.dirs[i] : i \in 1..Len(node.dirs)}
         IN  IF Len(comps) = 1 /\ \E f \in fl : f.name = comps[1]
                 THEN [kind |-> "file", data |-> (CHOOSE f \in fl : f.name = comps[1]).data]
             ELSE IF \E d \in ds : d.name = comps[1]
                 THEN Lookup((CHOOSE d \in ds : d.name = comps[1]).node, Tail(comps))
             ELSE Absent

\* The components of `path` below the directory `dir`.
Below(path, dir) == LET r == RelPath(path, dir) IN IF r = <<".">> THEN <<>> ELSE SplitSlash(r)

\* ------------------------------------------------------------------------
\* State
\* ------------------------------------------------------------------------

VARIABLES
    directory,          \* PaZipCompressor.directory
    tree,               \* the content of that directory on disk
    pc,                 \* where the packager is
    ignore_rules,       \* PaZipCompressor.ignore_rules
    todo,               \* os.walk: the directories still to visit, [root, node]
    files_to_compress,  \* the file paths collected so far
    written,            \* how many of them archive.write has stored
    timestamp,          \* compress_directory's local timestamp
    crc32_checksum,     \* compress_directory's local crc32_checksum
    archive_path,       \* compress_directory's local archive_path
    ret,                \* what compress_directory returned
    log,                \* the records logged, oldest first
    fs,                 \* the files of archive_locale: path -> bytes
    tampers,            \* how many times a file of archive_locale was altered
    mutation,           \* how the archive's name was altered after formatting
    upc,                \* where the unpackager is
    u_archive_path,     \* PaZipExtractor.archive_path (the argument)
    u_extract_to,       \* the extract_to argument, then PaZipExtractor.extract_to
    u_groups,           \* pattern.groups()
    u_checksum,         \* what calculate_checksum returned
    u_error,            \* the assertion that failed in __init__
    u_ret,              \* what extract_archive returned
    xfs                 \* extraction directories: path -> (relative path -> bytes)

pvars == <<directory, tree, pc, ignore_rules, todo, files_to_compress, written,
           timestamp, crc32_checksum, archive_path, ret, log>>

uvars == <<upc, u_archive_path, u_extract_to, u_groups, u_checksum, u_error, u_ret, xfs>>

vars == <<pvars, fs, tampers, mutation, uvars>>

\* Python's None, and a raised exception, where a str is expected
None == <<"None">>

Raise == <<"raise">>

\* ------------------------------------------------------------------------
\* PaZipCompressor
\* ------------------------------------------------------------------------

RECURSIVE SplitLines(_)
\* f.readlines(), the line ends dropped (strip() drops them next)
SplitLines(text) ==
    LET at == {i \in 1..Len(text) : text[i] = "\n"}
    IN  IF text = <<>> THEN <<>>
        ELSE IF at = {} THEN <<text>>
        ELSE LET i == CHOOSE k \in at : \A j \in at : k <= j
             IN  <<SubSeq(text, 1, i - 1)>> \o SplitLines(SubSeq(text, i + 1, Len(text)))

RECURSIVE Strip(_)
\* str.strip()
Strip(s) == IF s = <<>> THEN s
            ELSE IF Head(s) \in Whitespace THEN Strip(Tail(s))
            ELSE IF s[Len(s)] \in Whitespace THEN Strip(SubSeq(s, 1, Len(s) - 1))
            ELSE s

\* [line.strip() for line in f.readlines() if line.strip()]
ParseRules(text) == SelectSeq([i \in 1..Len(SplitLines(text)) |-> Strip(SplitLines(text)[i])],
                              LAMBDA l : l # <<>>)

\* load_paignore when the file opens and reads
load_paignore(dir, node) ==
    LET f == Lookup(node, Below(Join(dir, PaignoreName), dir))
    IN  IF f.kind # "file" THEN <<>> ELSE ParseRules(Decode(f.data))

\* matches_ignore_pattern(filepath)
matches_ignore_pattern(rules, filepath) == \E i \in 1..Len(rules) : Glob(filepath, rules[i])

\* directory_name, line 77
directory_name == Basename(NormPath(directory))

\* archive_tmp_path, line 78
archive_tmp_path == Join(ArchiveLocale, directory_name \o <<".", "7", "z", ".", "t", "m", "p">>)

\* f"{directory_name}_{timestamp}_{crc32_checksum}.7z", line 108
ArchiveName(b, t, c) == b \o <<"_">> \o t \o <<"_">> \o c \o <<".", "7", "z">>

\* a function with the pair k |-> v added or replaced
Put(f, k, v) == [x \in DOMAIN f \cup {k} |-> IF x = k THEN v ELSE f[x]]

\* a function with the key k removed
Drop(f, k) == [x \in DOMAIN f \ {k} |-> f[x]]

Empty == [x \in {} |-> <<>>]

\* __init__: load_paignore; an unreadable .paignore is logged and gives no rules.
PInit ==
    /\ pc = "init"
    /\ \E readable \in BOOLEAN :
          IF readable \/ Lookup(tree, <<PaignoreName>>).kind # "file"
          THEN /\ ignore_rules' = load_paignore(directory, tree)
               /\ log' = log
          ELSE /\ ignore_rules' = <<>>
               /\ log' = Append(log, "error: reading .paignore")
    /\ pc' = "walk"
    /\ todo' = <<[root |-> directory, node |-> tree]>>
    /\ UNCHANGED <<directory, tree, files_to_compress, written, timestamp,
                   crc32_checksum, archive_path, ret, fs, tampers, mutation, uvars>>

\* Lines 83-87: dirs[:] keeps the sub-directories whose joined path matches no
\* rule.
KeptDirs(rules, root, node) ==
    SelectSeq(node.dirs, LAMBDA d : ~matches_ignore_pattern(rules, Join(root, d.name)))

\* Lines 88-91: the files whose joined path matches no rule.
KeptFiles(rules, root, node) ==
    SelectSeq(node.files, LAMBDA f : ~matches_ignore_pattern(rules, Join(root, f.name)))

\* One iteration of the os.walk loop, lines 81-91: the sub-directories that match
\* are taken out of dirs (os.walk then does not descend into them), the files
\* that do not match are collected.
WalkStep ==
    /\ pc = "walk"
    /\ todo # <<>>
    /\ LET root  == Head(todo).root
           node  == Head(todo).node
           dirs  == KeptDirs(ignore_rules, root, node)
           files == KeptFiles(ignore_rules, root, node)
       IN  /\ files_to_compress' = files_to_compress
                                   \o [i \in 1..Len(files) |-> Join(root, files[i].name)]
           /\ todo' = [i \in 1..Len(dirs) |-> [root |-> Join(root, dirs[i].name),
                                               node |-> dirs[i].node]] \o Tail(todo)
    /\ UNCHANGED <<directory, tree, pc, ignore_rules, written, timestamp, crc32_checksum,
                   archive_path, ret, log, fs, tampers, mutation, uvars>>

\* Lines 93-95: nothing collected: warn and return.
PCheckEmpty ==
    /\ pc = "walk"
    /\ todo = <<>>
    /\ IF files_to_compress = <<>>
       THEN /\ log' = Append(log, "warning: no files")
            /\ ret' = None
            /\ pc' = "returned"
       ELSE /\ log' = Append(log, "info: compressing")
            /\ ret' = ret
            /\ pc' = "open"
    /\ UNCHANGED <<directory, tree, ignore_rules, todo, files_to_compress, written, timestamp,
                   crc32_checksum, archive_path, fs, tampers, mutation, uvars>>

\* Line 101: the sink is opened for writing under the temporary name, or the
\* open raises.
POpen ==
    /\ pc = "open"
    /\ \E ok \in BOOLEAN :
          IF ok THEN /\ fs' = Put(fs, archive_tmp_path, Magic)
                     /\ pc' = "write"
          ELSE /\ fs' = fs
               /\ pc' = "except"
    /\ UNCHANGED <<directory, tree, ignore_rules, todo, files_to_compress, written, timestamp,
                   crc32_checksum, archive_path, ret, log, tampers, mutation, uvars>>

\* Lines 102-104: one file is stored under its arcname, or the codec raises and
\* the with block is left.
PWrite ==
    /\ pc = "write"
    /\ written < Len(files_to_compress)
    /\ \E ok \in BOOLEAN :
          IF ok THEN LET file_path == files_to_compress[written + 1]
                         arcname   == RelPath(file_path, directory)
                         data      == Lookup(tree, Below(file_path, directory)).data
                     IN  /\ fs' = Put(fs, archive_tmp_path,
                                      fs[archive_tmp_path] \o EntryBytes(arcname, data))
                         /\ written' = written + 1
                         /\ pc' = pc
          ELSE /\ fs' = fs
               /\ written' = written
               /\ pc' = "except"
    /\ UNCHANGED <<directory, tree, ignore_rules, todo, files_to_compress, timestamp,
                   crc32_checksum, archive_path, ret, log, tampers, mutation, uvars>>

\* The end of the with block: close() completes the container, or raises.
PClose ==
    /\ pc = "write"
    /\ written = Len(files_to_compress)
    /\ \E ok \in BOOLEAN :
          IF ok THEN /\ fs' = Put(fs, archive_tmp_path, fs[archive_tmp_path] \o EndRecord(written))
                     /\ pc' = "stamp"
          ELSE /\ fs' = fs
               /\ pc' = "except"
    /\ UNCHANGED <<directory, tree, ignore_rules, todo, files_to_compress, written, timestamp,
                   crc32_checksum, archive_path, ret, log, tampers, mutation, uvars>>

\* Line 106
PStamp ==
    /\ pc = "stamp"
    /\ timestamp' \in Timestamps
    /\ pc' = "crc"
    /\ UNCHANGED <<directory, tree, ignore_rules, todo, files_to_compress, written,
                   crc32_checksum, archive_path, ret, log, fs, tampers, mutation, uvars>>

\* Another process removes the temporary file between close() and the checksum.
EnvRemoveTmp ==
    /\ pc = "crc"
    /\ archive_tmp_path \in DOMAIN fs
    /\ fs' = Drop(fs, archive_tmp_path)
    /\ UNCHANGED <<pvars, tampers, mutation, uvars>>

\* The digest taken of what the file held before close() completed it.
calculate_crc32_stale(data, opens) ==
    IF opens THEN Crc32Hex(SubSeq(data, 1, Len(data) - 2)) ELSE Raise

\* calculate_crc32(filepath), lines 55-70, of a file that is there: its digest,
\* or Raise when open() raises an error other than FileNotFoundError.
calculate_crc32_found(data, opens) == IF opens THEN Crc32Hex(data) ELSE Raise

\* calculate_crc32(filepath), lines 67-69, of a file that is not there.
calculate_crc32_not_found == Sentinel

\* Line 107
PCrc ==
    /\ pc = "crc"
    /\ \E opens \in BOOLEAN :
          LET r == IF archive_tmp_path \in DOMAIN fs
                   THEN calculate_crc32_found(fs[archive_tmp_path], opens)
                   ELSE calculate_crc32_not_found
          IN  IF r = Raise
              THEN /\ crc32_checksum' = crc32_checksum
                   /\ log' = log
                   /\ pc' = "except"
              ELSE /\ crc32_checksum' = r
                   /\ log' = IF archive_tmp_path \in DOMAIN fs THEN log
                             ELSE Append(log, "error: not found for CRC32")
                   /\ pc' = "rename"
    /\ UNCHANGED <<directory, tree, ignore_rules, todo, files_to_compress, written, timestamp,
                   archive_path, ret, fs, tampers, mutation, uvars>>

\* os.rename(src, dst) that succeeds: dst atomically takes the content of src.
Rename(f, src, dst) == Put(Drop(f, src), dst, f[src])

\* Lines 108-109: the final name is formatted and the temporary file renamed to
\* it, or os.rename raises (always when the temporary file is gone).
PRename ==
    /\ pc = "rename"
    /\ archive_path' = ArchiveName(directory_name, timestamp, crc32_checksum)
    /\ \E ok \in BOOLEAN :
          IF ok /\ archive_tmp_path \in DOMAIN fs
          THEN /\ fs' = Rename(fs, archive_tmp_path, Join(ArchiveLocale, archive_path'))
               /\ pc' = "renamed"
          ELSE /\ fs' = fs
               /\ pc' = "except"
    /\ UNCHANGED <<directory, tree, ignore_rules, todo, files_to_compress, written, timestamp,
                   crc32_checksum, ret, log, tampers, mutation, uvars>>

\* What compress_directory returns after a successful rename: the function ends
\* without a return statement.
SuccessReturn(path) == None

\* Lines 111-113 and the end of the function.
PSuccess ==
    /\ pc = "renamed"
    /\ log' = Append(log, "success: compressed")
    /\ ret' = SuccessReturn(Join(ArchiveLocale, archive_path))
    /\ pc' = "returned"
    /\ UNCHANGED <<directory, tree, ignore_rules, todo, files_to_compress, written, timestamp,
                   crc32_checksum, archive_path, fs, tampers, mutation, uvars>>

\* Lines 117-118 left out: the handler only logs and returns.
CleanupSkipped(f, tmp) == f

\* Lines 117-118
Cleanup(f, tmp) == IF tmp \in DOMAIN f THEN Drop(f, tmp) ELSE f

\* Lines 115-119: the error is logged, the temporary file removed if it exists.
PExcept ==
    /\ pc = "except"
    /\ log' = Append(log, "error: compressing")
    /\ fs' = Cleanup(fs, archive_tmp_path)
    /\ ret' = None
    /\ pc' = "returned"
    /\ UNCHANGED <<directory, tree, ignore_rules, todo, files_to_compress, written, timestamp,
                   crc32_checksum, archive_path, tampers, mutation, uvars>>

\* ------------------------------------------------------------------------
\* PaZipExtractor
\* ------------------------------------------------------------------------

\* [\w_-] on ASCII
WordChars == LowerLetters \cup UpperLetters \cup Digits \cup {"_", "-"}

\* The length of what follows group 1: _ 14 digits, sign, 4 digits _ 8 hex .7z
RestLen == 32

\* Whether r matches _(\d{8}\d{6}[+-]\d{4})_([a-fA-F0-9]{8})\.7z$ from its start.
\* "$" matches at the end of the string and also just before a newline that
\* ends the string.
RestMatches(r) ==
    /\ \/ Len(r) = RestLen
       \/ Len(r) = RestLen + 1 /\ r[RestLen + 1] = "\n"
    /\ r[1] = "_"
    /\ \A i \in 2..15 : r[i] \in Digits
    /\ r[16] \in {"+", "-"}
    /\ \A i \in 17..20 : r[i] \in Digits
    /\ r[21] = "_"
    /\ \A i \in 22..29 : r[i] \in HexChars
    /\ r[30] = "." /\ r[31] = "7" /\ r[32] = "z"

\* The lengths group 1 can take in a match of the whole pattern.
Group1Ends(name) == { i \in 1..Len(name) : /\ RestMatches(SubSeq(name, i + 1, Len(name)))
                                           /\ \A j \in 1..i : name[j] \in WordChars }

NoMatch == [matched |-> FALSE, groups |-> <<>>]

\* The pattern with group 1 as ([^_]+): the base name ends at the first "_".
ReMatchFirstUnderscore(name) ==
    LET ends == { i \in Group1Ends(name) : \A j \in 1..i : name[j] # "_" }
    IN  IF ends = {} THEN NoMatch
        ELSE LET i == CHOOSE k \in ends : \A j \in ends : j <= k
             IN  [matched |-> TRUE,
                  groups  |-> <<SubSeq(name, 1, i), SubSeq(name, i + 2, i + 20),
                                SubSeq(name, i + 22, i + 29)>>]

\* re.match(r"^([\w_-]+)_(\d{8}\d{6}[+-]\d{4})_([a-fA-F0-9]{8})\.7z$", name):
\* group 1 is greedy, so the longest split that lets the rest match is taken.
ReMatch(name) ==
    LET ends == Group1Ends(name)
    IN  IF ends = {} THEN NoMatch
        ELSE LET i == CHOOSE k \in ends : \A j \in ends : j <= k
             IN  [matched |-> TRUE,
                  groups  |-> <<SubSeq(name, 1, i), SubSeq(name, i + 2, i + 20),
                                SubSeq(name, i + 22, i + 29)>>]

\* utils.calculate_checksum(path): the fixed-width lowercase hexadecimal CRC-32
\* digest of the file's bytes.
calculate_checksum(data) == Crc32Hex(data)

\* The extract_to arguments: None (the working directory), a directory that
\* exists, a path that does not.
ExistingBase == <<"b", "a", "s", "e">>

MissingBase == <<"n", "o", "d", "i", "r">>

ExtractBases == { None, ExistingBase, MissingBase }

IsDir(p) == p \in {Cwd, ExistingBase, ArchiveLocale} \/ p \in DOMAIN xfs

\* The paths callers hand to the unpackager: what the archive directory holds,
\* and the temporary path, which is gone once a run is over.
UPaths == DOMAIN fs \cup {archive_tmp_path}

\* PaZipExtractor(archive_path, extract_to) is called.
UStart ==
    /\ upc = "idle"
    /\ pc = "returned"
    /\ u_archive_path' \in UPaths
    /\ u_extract_to' \in ExtractBases
    /\ upc' = "isfile"
    /\ UNCHANGED <<pvars, fs, tampers, mutation, u_groups, u_checksum, u_error, u_ret, xfs>>

\* Lines 20-22
UIsFile ==
    /\ upc = "isfile"
    /\ IF u_archive_path \in DOMAIN fs
       THEN upc' = "isdir" /\ u_error' = u_error
       ELSE upc' = "failed" /\ u_error' = "does not exist"
    /\ UNCHANGED <<pvars, fs, tampers, mutation, u_archive_path, u_extract_to, u_groups,
                   u_checksum, u_ret, xfs>>

\* Lines 23-25
UIsDir ==
    /\ upc = "isdir"
    /\ IF u_extract_to = None \/ IsDir(u_extract_to)
       THEN upc' = "match" /\ u_error' = u_error
       ELSE upc' = "failed" /\ u_error' = "output directory does not exist"
    /\ UNCHANGED <<pvars, fs, tampers, mutation, u_archive_path, u_extract_to, u_groups,
                   u_checksum, u_ret, xfs>>

\* The file-name assertion of lines 26-30 left out: a name that does not match
\* goes on to extraction.
NameCheckLenient(m, base) ==
    IF m.matched
    THEN [next |-> "checksum", error |-> "", groups |-> m.groups,
          extract_to |-> JoinAll(IF base = None THEN Cwd ELSE base, m.groups)]
    ELSE [next |-> "ready", error |-> "", groups |-> <<>>, extract_to |-> base]

\* What __init__ does with the match of the file name, lines 26-34.
NameCheck(m, base) ==
    IF m.matched
    THEN [next |-> "checksum", error |-> "", groups |-> m.groups,
          extract_to |-> JoinAll(IF base = None THEN Cwd ELSE base, m.groups)]
    ELSE [next |-> "failed", error |-> "Invalid archive name", groups |-> <<>>,
          extract_to |-> base]

\* Lines 26-34
UMatch ==
    /\ upc = "match"
    /\ LET r == NameCheck(ReMatch(Basename(u_archive_path)), u_extract_to)
       IN  /\ upc' = r.next
           /\ u_error' = IF r.error = "" THEN u_error ELSE r.error
           /\ u_groups' = r.groups
           /\ u_extract_to' = r.extract_to
    /\ UNCHANGED <<pvars, fs, tampers, mutation, u_archive_path, u_checksum, u_ret, xfs>>

\* The assertion of lines 35-37 left out (or compiled away).
ChecksumCheckSkipped(computed, embedded) == [next |-> "ready", error |-> ""]

\* The assertion of lines 35-37
ChecksumCheck(computed, embedded) ==
    IF computed = embedded THEN [next |-> "ready", error |-> ""]
    ELSE [next |-> "failed", error |-> "Checksum mismatch"]

\* Lines 35-37
UChecksum ==
    /\ upc = "checksum"
    /\ u_checksum' = calculate_checksum(fs[u_archive_path])
    /\ LET r == ChecksumCheck(u_checksum', u_groups[3])
       IN  /\ upc' = r.next
           /\ u_error' = IF r.error = "" THEN u_error ELSE r.error
    /\ UNCHANGED <<pvars, fs, tampers, mutation, u_archive_path, u_extract_to, u_groups,
                   u_ret, xfs>>

\* The directories that exist before any extraction, and those created in x.
IsDirIn(x, p) == p \in {Cwd, ExistingBase, ArchiveLocale} \/ p \in DOMAIN x

\* path and the directories above it, each spelled as a prefix of path.
PathPrefixes(path) == { SubSeq(path, 1, i) : i \in { k \in 1..Len(path) :
                                                       k = Len(path) \/ path[k + 1] = "/" } }

\* Lines 44-45: os.makedirs(path) unless path exists: path is created, and so
\* is every directory above it that does not exist yet.
MakeDirs(x, path) ==
    IF IsDirIn(x, path) THEN x
    ELSE LET missing == { q \in PathPrefixes(path) : ~IsDirIn(x, q) }
         IN  [q \in DOMAIN x \cup missing |-> IF q \in DOMAIN x THEN x[q] ELSE Empty]

\* Lines 44-45
UMakeDirs ==
    /\ upc = "ready"
    /\ xfs' = MakeDirs(xfs, u_extract_to)
    /\ upc' = "extract"
    /\ UNCHANGED <<pvars, fs, tampers, mutation, u_archive_path, u_extract_to, u_groups,
                   u_checksum, u_error, u_ret>>

\* Lines 47-59: every entry is written below extract_to and extract_to is
\* returned, or the codec raises and nothing is returned.
UExtract ==
    /\ upc = "extract"
    /\ LET c == ReadContainer(fs[u_archive_path])
       IN  \E ok \in BOOLEAN :
              IF ok /\ c.ok
              THEN /\ xfs' = Put(xfs, u_extract_to, ExtractAll(c.entries))
                   /\ u_ret' = u_extract_to
                   /\ upc' = "done"
              ELSE /\ xfs' = xfs
                   /\ u_ret' = None
                   /\ upc' = "error"
    /\ UNCHANGED <<pvars, fs, tampers, mutation, u_archive_path, u_extract_to, u_groups,
                   u_checksum, u_error>>

\* ------------------------------------------------------------------------
\* The environment
\* ------------------------------------------------------------------------

\* How many times an archive is altered after it was named.
MaxTamper == 1

\* One byte of a file with the low bit flipped.
FlipByte(data, i) == [data EXCEPT ![i] = IF data[i] % 2 = 0 THEN data[i] + 1 ELSE data[i] - 1]

\* The positions at which Tamper alters a file: spread over the file.
TamperAt(data) == {1, (Len(data) + 1) \div 2, Len(data)}

\* A file of the archive directory is altered in place; its name stays.
Tamper ==
    /\ pc = "returned"
    /\ upc = "idle"
    /\ tampers < MaxTamper
    /\ \E p \in DOMAIN fs : \E i \in TamperAt(fs[p]) :
          /\ i \in 1..Len(fs[p])
          /\ fs' = Put(fs, p, FlipByte(fs[p], i))
    /\ tampers' = tampers + 1
    /\ UNCHANGED <<pvars, mutation, uvars>>

\* ------------------------------------------------------------------------
\* Specification: a packager run, then an unpackager run on what it left
\* ------------------------------------------------------------------------

UInit ==
    /\ upc = "idle"
    /\ u_archive_path = None
    /\ u_extract_to = None
    /\ u_groups = <<>>
    /\ u_checksum = None
    /\ u_error = ""
    /\ u_ret = None
    /\ xfs = Empty

Init ==
    /\ directory \in Directories
    /\ tree \in Trees
    /\ pc = "init"
    /\ ignore_rules = <<>>
    /\ todo = <<>>
    /\ files_to_compress = <<>>
    /\ written = 0
    /\ timestamp = None
    /\ crc32_checksum = None
    /\ archive_path = None
    /\ ret = None
    /\ log = <<>>
    /\ fs = Empty
    /\ tampers = 0
    /\ mutation = "none"
    /\ UInit

Packager == PInit \/ WalkStep \/ PCheckEmpty \/ POpen \/ PWrite \/ PClose \/ PStamp
            \/ EnvRemoveTmp \/ PCrc \/ PRename \/ PSuccess \/ PExcept

Unpackager == UStart \/ UIsFile \/ UIsDir \/ UMatch \/ UChecksum \/ UMakeDirs \/ UExtract

Next == Packager \/ Tamper \/ Unpackager

Spec == Init /\ [][Next]_vars

\* ------------------------------------------------------------------------
\* Specification: the archive name, formatted from a base name, a timestamp and
\* a checksum as line 108 formats it, possibly altered afterwards, and handed
\* to the unpackager
\* ------------------------------------------------------------------------

\* Directories whose last segment is a base name of word, hyphen and underscore
\* characters; some contain underscores, a timestamp, or a whole archive stem.
NameDirectories == { <<"p", "r", "o", "j", "e", "c", "t">>, <<"a", "_", "b">>, <<"x", "-", "1">>, <<"d", "i", "r", "/", "v", "_", "2", "0", "2", "4", "0", "1", "0", "1", "1", "2", "0", "0", "0", "0", "-", "0", "5", "0", "0">>,
                     <<"p", "_", "2", "0", "2", "4", "0", "1", "0", "1", "1", "2", "0", "0", "0", "0", "-", "0", "5", "0", "0", "_", "1", "2", "3", "4", "a", "b", "c", "d", "/">> }

\* The bytes of the named file: a container with one entry, and an empty one.
NameContents == { Magic \o EntryBytes(<<"a", ".", "t", "x", "t">>, Encode(<<"A", "1">>)) \o EndRecord(1),
                  Magic \o EndRecord(0) }

\* str.upper() on hexadecimal digits
Upper(s) == [i \in 1..Len(s) |->
               IF s[i] \in {"a", "b", "c", "d", "e", "f"}
               THEN <<"A", "B", "C", "D", "E", "F">>[CHOOSE k \in 1..6 : <<"a", "b", "c", "d", "e", "f">>[k] = s[i]]
               ELSE s[i]]

\* The checksums written into the name of a file holding `data`: its digest in
\* lowercase, the same in uppercase, and digests of other content.
NameChecksums(data) == { Crc32Hex(data), Upper(Crc32Hex(data)), <<"1", "2", "3", "4", "a", "b", "c", "d">>, <<"0", "0", "0", "0", "b", "e", "e", "f">> }

Mutations == { "none", "drop_checksum", "short_checksum", "long_checksum", "short_timestamp",
               "zip_ext", "upper_ext", "no_base", "trailing_newline", "trailing_text" }

\* The file name that results from altering the name formatted from (b, t, c).
MutateName(m, b, t, c) ==
    CASE m = "none"             -> ArchiveName(b, t, c)
      [] m = "drop_checksum"    -> b \o <<"_">> \o t \o <<".", "7", "z">>
      [] m = "short_checksum"   -> ArchiveName(b, t, SubSeq(c, 1, 4))
      [] m = "long_checksum"    -> ArchiveName(b, t, c \o <<"0">>)
      [] m = "short_timestamp"  -> ArchiveName(b, Tail(t), c)
      [] m = "zip_ext"          -> b \o <<"_">> \o t \o <<"_">> \o c \o <<".", "z", "i", "p">>
      [] m = "upper_ext"        -> b \o <<"_">> \o t \o <<"_">> \o c \o <<".", "7", "Z">>
      [] m = "no_base"          -> ArchiveName(<<>>, t, c)
      [] m = "trailing_newline" -> ArchiveName(b, t, c) \o <<"\n">>
      [] m = "trailing_text"    -> ArchiveName(b, t, c) \o <<".", "b", "a", "k">>

NoTree == Dir(<<>>, <<>>)

InitNamer ==
    /\ directory \in NameDirectories
    /\ tree = NoTree
    /\ pc = "format"
    /\ ignore_rules = <<>>
    /\ todo = <<>>
    /\ files_to_compress = <<>>
    /\ written = 0
    /\ timestamp \in Timestamps
    /\ \E data \in NameContents :
          /\ fs = Put(Empty, archive_tmp_path, data)
          /\ crc32_checksum \in NameChecksums(data)
    /\ archive_path = None
    /\ ret = None
    /\ log = <<>>
    /\ tampers = 0
    /\ mutation \in Mutations
    /\ UInit

\* The name is formatted as on line 108 and the file put under it; under a
\* mutation the file ends up under the altered name instead.
NFormat ==
    /\ pc = "format"
    /\ archive_path' = ArchiveName(directory_name, timestamp, crc32_checksum)
    /\ fs' = Rename(fs, archive_tmp_path,
                    Join(ArchiveLocale, MutateName(mutation, directory_name, timestamp,
                                                   crc32_checksum)))
    /\ pc' = "returned"
    /\ UNCHANGED <<directory, tree, ignore_rules, todo, files_to_compress, written, timestamp,
                   crc32_checksum, ret, log, tampers, mutation, uvars>>

NextNamer == NFormat \/ Unpackager

SpecNamer == InitNamer /\ [][NextNamer]_vars

\* ------------------------------------------------------------------------
\* Vocabulary of the properties
\* ------------------------------------------------------------------------

Last(s) == s[Len(s)]

\* The packager's run is over and it logged success / the error of its handler.
Succeeded == pc = "returned" /\ log # <<>> /\ Last(log) = "success: compressed"

Failed == pc = "returned" /\ log # <<>> /\ Last(log) = "error: compressing"

\* The walk loop is over: files_to_compress is the list collected.
PastWalk == pc \notin {"init", "walk", "format"}

\* The final path the run renamed its archive to.
FinalPath == Join(ArchiveLocale, archive_path)

\* The relative paths of the directories above the relative path rel.
Ancestors(rel) == LET c == SplitSlash(rel)
                  IN  { JoinSlash(SubSeq(c, 1, k)) : k \in 1..(Len(c) - 1) }

\* A relative path matches a pattern of the rule set.
Excluded(rules, rel) == \E i \in 1..Len(rules) : Glob(rel, rules[i])

RECURSIVE AllFiles(_, _)
\* Every regular file below node: relative path -> bytes.
AllFiles(node, prefix) ==
    LET here == { <<(IF prefix = <<>> THEN node.files[i].name
                     ELSE prefix \o <<"/">> \o node.files[i].name), node.files[i].data>>
                  : i \in 1..Len(node.files) }
        RECURSIVE Below_(_)
        Below_(k) == IF k = 0 THEN {}
                     ELSE AllFiles(node.dirs[k].node,
                                   IF prefix = <<>> THEN node.dirs[k].name
                                   ELSE prefix \o <<"/">> \o node.dirs[k].name)
                          \cup Below_(k - 1)
    IN  here \cup Below_(Len(node.dirs))

\* The files of the tree that the rule set does not exclude, neither directly
\* nor through a directory above them: relative path -> bytes.
Kept(node, rules) ==
    LET all  == AllFiles(node, <<>>)
        keep == { f \in all : /\ ~Excluded(rules, f[1])
                              /\ \A d \in Ancestors(f[1]) : ~Excluded(rules, d) }
    IN  [p \in {f[1] : f \in keep} |-> (CHOOSE f \in keep : f[1] = p)[2]]

\* The entries of the archive at path p as relative path -> bytes.
ArchiveMap(p) == ExtractAll(ReadContainer(fs[p]).entries)

\* The entries a complete archive of the collected files holds, in order.
EntriesOf(files) == [i \in 1..Len(files) |->
                        [arcname |-> RelPath(files[i], directory),
                         data    |-> Lookup(tree, Below(files[i], directory)).data]]

\* The unpackager has evaluated the file-name pattern on an existing file (the
\* two assertions before it passed).
NameEvaluated == /\ upc \notin {"idle", "isfile", "isdir", "match"}
                 /\ u_archive_path \in DOMAIN fs
                 /\ u_error # "output directory does not exist"

\* The unpackager is past its checksum assertion, whatever the outcome.
ChecksumEvaluated == NameEvaluated /\ upc # "checksum" /\ u_error # "Invalid archive name"

\* baseName: one or more word, hyphen or underscore characters.
ValidBaseName(b) == b # <<>> /\ \A i \in 1..Len(b) : b[i] \in WordChars

\* A timestamp of 14 digits, a sign and 4 digits.
ValidTimestamp(t) == /\ Len(t) = 19
                     /\ \A i \in (1..14) \cup (16..19) : t[i] \in Digits
                     /\ t[15] \in {"+", "-"}

\* Exactly 8 hexadecimal characters.
ValidChecksum(c) == Len(c) = 8 /\ \A i \in 1..8 : c[i] \in HexChars

\* The name consists of exactly baseName _ timestamp _ checksum .7z
WellFormedName(n) ==
    \E k \in 1..Len(n) :
       /\ Len(n) = k + 32
       /\ ValidBaseName(SubSeq(n, 1, k))
       /\ n[k + 1] = "_"
       /\ ValidTimestamp(SubSeq(n, k + 2, k + 20))
       /\ n[k + 21] = "_"
       /\ ValidChecksum(SubSeq(n, k + 22, k + 29))
       /\ SubSeq(n, k + 30, k + 32) = <<".", "7", "z">>

\* ------------------------------------------------------------------------
\* Properties
\* ------------------------------------------------------------------------

\* C1: no collected file has a relative path that matches a pattern of the
\* rule set, and none lies under a directory whose relative path matches one.
C1_NoExcludedFileCollected ==
    PastWalk =>
       \A i \in 1..Len(files_to_compress) :
          LET rel == RelPath(files_to_compress[i], directory)
          IN  /\ ~Excluded(ignore_rules, rel)
              /\ \A d \in Ancestors(rel) : ~Excluded(ignore_rules, d)

C2_Scenario == /\ directory = <<"p", "r", "o", "j", "e", "c", "t">>
               /\ tree = Tree(<<"*", ".", "l", "o", "g", "\n", "c", "a", "c", "h", "e", "\n">>, TRUE, TRUE, TRUE)

\* C2: project/ with a.txt, b.log, cache/x.bin and a .paignore of "*.log" and
\* "cache": the archive holds exactly a.txt, and unpacking it gives
\* {base}/project/{ts}/{checksum}/a.txt with the original content.
C2_EndToEnd ==
    (C2_Scenario /\ Succeeded /\ tampers = 0 /\ FinalPath \in DOMAIN fs) =>
       /\ DOMAIN ArchiveMap(FinalPath) = { <<"a", ".", "t", "x", "t">> }
       /\ (upc = "done" /\ u_archive_path = FinalPath) =>
             /\ u_extract_to \in { JoinAll(b, <<<<"p", "r", "o", "j", "e", "c", "t">>, timestamp, crc32_checksum>>)
                                   : b \in {Cwd, ExistingBase} }
             /\ xfs[u_extract_to] = Put(Empty, <<"a", ".", "t", "x", "t">>, Encode(<<"A", "1">>))

\* C3: packaging succeeds and yields the archive path, unpacking that path
\* succeeds, and the extracted relative path -> content mapping is the
\* directory's, restricted to the files the rule set does not exclude.
C3_RoundTrip ==
    (Succeeded /\ tampers = 0 /\ upc = "done" /\ u_archive_path = FinalPath) =>
       /\ ret = FinalPath
       /\ u_ret = u_extract_to
       /\ xfs[u_extract_to] = Kept(tree, ignore_rules)

\* C4: the packager returns the path of the final archive when it succeeds and
\* nothing when it fails.
C4_ReturnsArchivePath ==
    /\ Succeeded => ret = FinalPath
    /\ Failed => ret = None

\* C5: after a run that failed while writing or finalizing, neither the
\* temporary file nor a file under a final name is in the output directory.
C5_NoArtifactAfterFailure == Failed => DOMAIN fs = {}

\* A run failed at the rename, with every collected file written and the
\* checksum of the closed temporary file computed.
C5_Witness == /\ Failed
              /\ written > 0 /\ written = Len(files_to_compress)
              /\ crc32_checksum \notin {None, Sentinel}
              /\ archive_path # None

\* C6: while nobody alters the output directory, a file under a name other than
\* the temporary one is the complete archive of the collected files and bears
\* the checksum of its own bytes in its name; and once the checksum is computed
\* the sink is closed.
C6_FinalNameCompleteAndChecksummed ==
    tampers = 0 /\ mutation = "none" =>
       /\ \A p \in DOMAIN fs :
             p # archive_tmp_path =>
                /\ ReadContainer(fs[p]) = [ok |-> TRUE, entries |-> EntriesOf(files_to_compress)]
                /\ p = Join(ArchiveLocale,
                            ArchiveName(directory_name, timestamp, Crc32Hex(fs[p])))
       /\ crc32_checksum # None =>
             /\ written = Len(files_to_compress)
             /\ archive_tmp_path \in DOMAIN fs => ReadContainer(fs[archive_tmp_path]).ok

C6_Witness == /\ Succeeded
              /\ FinalPath \in DOMAIN fs
              /\ Len(files_to_compress) >= 2
              /\ tampers = 0

\* C7: an archive whose name parses but whose bytes no longer have the checksum
\* in its name is rejected with "Checksum mismatch", nothing of it is
\* extracted, and "Invalid archive name" is the outcome only of names that do
\* not parse.
C7_AlteredArchiveRejected ==
    LET m == ReMatch(Basename(u_archive_path))
    IN  /\ (ChecksumEvaluated /\ m.matched /\ Crc32Hex(fs[u_archive_path]) # m.groups[3]) =>
              /\ upc = "failed"
              /\ u_error = "Checksum mismatch"
              /\ u_ret = None
              /\ xfs = Empty
        /\ (NameEvaluated /\ u_error = "Invalid archive name") => ~m.matched

C7_Witness == /\ tampers > 0
              /\ upc = "failed"
              /\ u_error = "Checksum mismatch"
              /\ u_archive_path = FinalPath

\* C8: every file name that is not exactly baseName _ timestamp _ checksum .7z
\* is rejected with "Invalid archive name".
C8_MalformedNameRejected ==
    (NameEvaluated /\ ~WellFormedName(Basename(u_archive_path))) =>
       /\ upc = "failed"
       /\ u_error = "Invalid archive name"

\* C9: the name formatted from a valid base name b, a well-formed timestamp t
\* and an 8-hex-digit checksum c parses, and parses to exactly (b, t, c).
C9_NameRoundTrip ==
    ( /\ mutation = "none"
      /\ NameEvaluated
      /\ u_archive_path = FinalPath
      /\ ValidBaseName(directory_name)
      /\ ValidTimestamp(timestamp)
      /\ ValidChecksum(crc32_checksum) ) =>
       /\ u_error # "Invalid archive name"
       /\ u_groups = <<directory_name, timestamp, crc32_checksum>>

\* A base name that holds underscores and a whole archive stem was parsed back.
C9_Witness == /\ mutation = "none"
              /\ NameEvaluated
              /\ directory_name = <<"p", "_", "2", "0", "2", "4", "0", "1", "0", "1", "1", "2", "0", "0", "0", "0", "-", "0", "5", "0", "0", "_", "1", "2", "3", "4", "a", "b", "c", "d">>
              /\ u_groups = <<directory_name, timestamp, crc32_checksum>>

\* C10: a checksum computation that could not open its file ends the operation
\* with an error; it never yields a digest, such as 00000000, in its place.
C10_NoPlaceholderDigest ==
    (\E i \in 1..Len(log) : log[i] = "error: not found for CRC32") =>
       /\ crc32_checksum # Sentinel
       /\ pc \in {"except", "returned"}

\* The walk is over and no file survived the filtering: the warning was logged.
NothingCollected == /\ PastWalk
                    /\ files_to_compress = <<>>
                    /\ \E i \in 1..Len(log) : log[i] = "warning: no files"

\* C11: when no file survives filtering the packager warns and still goes
\* through writing and finalizing: its run ends with an empty archive under a
\* final name that bears the archive's checksum.
C11_EmptyRunProducesArchive ==
    (NothingCollected /\ pc = "returned" /\ tampers = 0) =>
       /\ Succeeded
       /\ FinalPath \in DOMAIN fs
       /\ ReadContainer(fs[FinalPath]) = [ok |-> TRUE, entries |-> <<>>]
       /\ archive_path = ArchiveName(directory_name, timestamp, Crc32Hex(fs[FinalPath]))

\* The unpackager's validation is over and failed.
ValidationFailed == upc = "failed"

\* The extraction directory was created or the codec read was started.
ExtractionStarted == xfs # Empty \/ upc \in {"extract", "done", "error"}

\* The order of the unpackager's steps, as the state shows it.
C12_Order ==
    LET m == ReMatch(Basename(u_archive_path))
    IN  /\ (u_groups # <<>> \/ u_checksum # None
            \/ u_error \in {"output directory does not exist", "Invalid archive name",
                            "Checksum mismatch"})
              => u_archive_path \in DOMAIN fs
        /\ u_checksum # None => (m.matched /\ u_groups = m.groups)
        /\ ExtractionStarted =>
              /\ m.matched /\ u_groups = m.groups
              /\ u_checksum = u_groups[3]
              /\ u_error = ""
        /\ ValidationFailed => (xfs = Empty /\ u_ret = None /\ u_error # "")

\* C12: the archive's existence is checked first, its name is parsed before
\* its checksum is computed, the extraction directory is created and the
\* codec read started only after the name parsed and the checksum compared
\* equal; a failed validation has created no directory and extracted nothing,
\* and no step of the unpackager alters the archive directory.
C12_ValidationBeforeExtraction ==
    /\ []C12_Order
    /\ [][upc # "idle" => fs' = fs]_vars
    /\ [][xfs' # xfs => upc \in {"ready", "extract"}]_vars

\* The validation failed at its last step, the checksum comparison, after the
\* name parsed and the target path was formed; nothing was created.
C12_Witness == /\ ValidationFailed
               /\ u_groups # <<>>
               /\ u_checksum \notin {None, u_groups[3]}
               /\ xfs = Empty

RECURSIVE Walk(_, _, _)
\* The whole loop of lines 81-91 run from the visit list td: the list of the
\* file paths collected, acc first.
Walk(rules, td, acc) ==
    IF td = <<>> THEN acc
    ELSE LET root  == Head(td).root
             node  == Head(td).node
             dirs  == KeptDirs(rules, root, node)
             files == KeptFiles(rules, root, node)
             next  == [i \in 1..Len(dirs) |-> [root |-> Join(root, dirs[i].name),
                                               node |-> dirs[i].node]] \o Tail(td)
             got   == acc \o [i \in 1..Len(files) |-> Join(root, files[i].name)]
         IN  IF Len(got) >= 0 THEN Walk(rules, next, got) ELSE got

\* Parent paths under which a copy of the tree is placed.
Parents == { <<"/", "s", "r", "v">>, <<"o", "l", "d", "/", "p">>, <<"p", "r", "o", "d">> }

\* The path of the copy of the archived directory placed under parent.
CopyAt(parent) == Join(parent, directory_name)

\* The collected paths relative to the directory they were collected from.
RelativeSet(files, dir) == { RelPath(files[i], dir) : i \in 1..Len(files) }

\* C13: a copy of the tree, with the same .paignore, placed under another
\* parent path yields the same set of collected relative paths.
C13_PlacementIndependent ==
    (PastWalk /\ pc # "format" /\ ignore_rules = load_paignore(directory, tree)) =>
       \A parent \in Parents :
          LET copy == CopyAt(parent)
          IN  RelativeSet(Walk(load_paignore(copy, tree), <<[root |-> copy, node |-> tree]>>, <<>>),
                          copy)
              = RelativeSet(files_to_compress, directory)

\* {outputBase}/{baseName}/{timestamp}/{checksum}
TargetLayout(base, b, t, c) == base \o <<"/">> \o b \o <<"/">> \o t \o <<"/">> \o c

\* The output bases an extraction can have taken: the working directory when
\* extract_to was None, else the directory given.
OutputBases == { Cwd, ExistingBase }

\* Identity triples of archives: the base names, timestamps and checksums the
\* names are formatted from.
Triples == { <<Basename(NormPath(d)), t, c>> :
               d \in NameDirectories, t \in Timestamps,
               c \in UNION { NameChecksums(data) : data \in NameContents } }

\* C14: a successful extraction returns {outputBase}/{baseName}/{timestamp}/
\* {checksum}, built from the three groups parsed from the file name; that
\* directory and every directory above it exists afterwards; and no archive with
\* another identity triple has the same target under the same output base.
C14_TargetFromTriple ==
    upc = "done" =>
       \E base \in OutputBases :
          /\ u_groups = ReMatch(Basename(u_archive_path)).groups
          /\ u_ret = TargetLayout(base, u_groups[1], u_groups[2], u_groups[3])
          /\ u_ret = u_extract_to
          /\ \A q \in PathPrefixes(u_ret) : IsDir(q)
          /\ \A tr \in Triples :
                tr # u_groups =>
                   NameCheck([matched |-> TRUE, groups |-> tr], base).extract_to # u_ret

\* An archive whose base name holds underscores was extracted below an
\* existing output base, creating three levels of directories.
C14_Witness == /\ upc = "done"
               /\ mutation = "none"
               /\ u_groups[1] = <<"a", "_", "b">>
               /\ u_ret = TargetLayout(ExistingBase, u_groups[1], u_groups[2], u_groups[3])
               /\ Join(ExistingBase, <<"a", "_", "b">>) \in DOMAIN xfs

\* The name of an archive entry stays below the root it is extracted under:
\* it is not empty, not absolute, and none of its components is "..".
StaysBelowRoot(arcname) ==
    /\ arcname # <<>>
    /\ Head(arcname) # "/"
    /\ \A k \in 1..Len(SplitSlash(arcname)) : SplitSlash(arcname)[k] \notin { <<".", ".">>, <<>> }

\* C15: every entry of an archive the packager closed is named by the file's
\* path relative to the archived directory: the name is not absolute, does not
\* leave the root, and names, component by component from the root of the
\* tree, the collected file whose bytes the entry holds.
C15_EntriesRelative ==
    \A p \in DOMAIN fs :
       (tampers = 0 /\ mutation = "none" /\ pc # "format" /\ ReadContainer(fs[p]).ok) =>
          LET entries == ReadContainer(fs[p]).entries
          IN  /\ Len(entries) = Len(files_to_compress)
              /\ \A i \in 1..Len(entries) :
                    /\ StaysBelowRoot(entries[i].arcname)
                    /\ Lookup(tree, SplitSlash(entries[i].arcname))
                          = [kind |-> "file", data |-> entries[i].data]
                    /\ NormPath(Join(directory, entries[i].arcname))
                          = NormPath(files_to_compress[i])

\* The archive of a directory given as a path through ".." holds an entry two
\* levels deep.
C15_Witness == /\ Succeeded
               /\ tampers = 0
               /\ directory = <<".", ".", "/", "a", " ", "b", ".", "c">>
               /\ FinalPath \in DOMAIN fs
               /\ \E i \in 1..Len(ReadContainer(fs[FinalPath]).entries) :
                     ReadContainer(fs[FinalPath]).entries[i].arcname = <<"c", "a", "c", "h", "e", "/", "x", ".", "b", "i", "n">>

\* C16: the file name a successful packager run produced matches the
\* unpackager's pattern and parses back to the base name, timestamp and
\* checksum it was formatted from; the unpackager does not reject the archive
\* the run left for its name.
C16_ProducedNameAccepted ==
    (Succeeded /\ mutation = "none") =>
       /\ ReMatch(archive_path)
             = [matched |-> TRUE, groups |-> <<directory_name, timestamp, crc32_checksum>>]
       /\ (NameEvaluated /\ u_archive_path = FinalPath) =>
             /\ u_error # "Invalid archive name"
             /\ u_groups = <<directory_name, timestamp, crc32_checksum>>

\* C17: an unaltered archive whose name carries the digest of its bytes, in
\* whatever letter case, passes the checksum validation: it is not rejected
\* with "Checksum mismatch", and it is extracted.
C17_DigestCaseInsensitive ==
    LET m == ReMatch(Basename(u_archive_path))
    IN  (ChecksumEvaluated /\ tampers = 0 /\ m.matched
         /\ Upper(m.groups[3]) = Upper(Crc32Hex(fs[u_archive_path]))) =>
           /\ u_error # "Checksum mismatch"
           /\ upc \in {"ready", "extract", "done", "error"}

====
